---- MODULE Spec2Model ----
(***************************************************************************)
(* A model of the incremental ETL pipeline of src/src/etl.py: the         *)
(* watermark, the raw tables, the validation-error table and the          *)
(* canonical store, with run_etl taken step by step (ingest, clean,       *)
(* enrich, save, commit).                                                 *)
(*                                                                         *)
(* Cells of the raw tables are modelled by what pandas reads from them:   *)
(* an empty text cell is a missing value (NaN), a date cell is a day      *)
(* number, NaT when empty, BadDate when its text does not parse.          *)
(***************************************************************************)
EXTENDS Integers, Sequences, FiniteSets, TLC

\* ------------------------------------------------------------------ bounds

\* Longest raw employee table the pipeline is started on.
MaxRows == 3
\* The wall clock stops here: every run starts one tick after the previous one.
MaxClock == 4
\* Longest relation handed to clean_data when it is checked on its own.
MaxCleanRows == 3

\* ------------------------------------------------------------ cell values

\* A missing date (pandas NaT): what an empty cell, or a coerced failure, is.
NaT == -1
\* A date cell whose text does not parse as a date.
BadDate == -2
\* get_high_water_mark's sentinel '1900-01-01T00:00:00': before every date.
MinTimestamp == 0
\* A missing text cell (NaN / None).
NoText == ""
\* A missing email (NaN): emails are sequences of characters.
NoEmail == << >>

Letters == {"a", "b", "x", "i", "o"}
Digits == {"1"}
\* [a-zA-Z0-9._%+-]
LocalChars == Letters \cup Digits \cup {".", "_", "%", "+", "-"}
\* [a-zA-Z0-9.-]
DomainChars == Letters \cup Digits \cup {".", "-"}

\* The emails of the sample rows.
EmA == <<"a", "@", "x", ".", "i", "o">>
EmB == <<"b", "@", "x", ".", "i", "o">>
EmShortTld == <<"a", "@", "x", ".", "i">>
EmNoAt == <<"a", "x", ".", "i", "o">>

\* ------------------------------------------------------- sequence helpers

\* The elements of s at the indices in keep, in order (boolean-mask indexing).
Pick(s, keep) ==
    LET F[i \in 0..Len(s)] ==
            IF i = 0 THEN << >>
            ELSE IF i \in keep THEN Append(F[i - 1], s[i]) ELSE F[i - 1]
    IN  F[Len(s)]

Range(s) == {s[i] : i \in 1..Len(s)}

\* DataFrame.drop_duplicates(subset=..., keep='first')
KeepFirst(s, Key(_)) ==
    Pick(s, {i \in 1..Len(s) : \A j \in 1..(i - 1) : Key(s[j]) # Key(s[i])})

\* DataFrame.drop_duplicates(subset=..., keep='last')
KeepLast(s, Key(_)) ==
    Pick(s, {i \in 1..Len(s) : \A j \in (i + 1)..Len(s) : Key(s[j]) # Key(s[i])})

\* ------------------------------------------------------------- clean_data

\* str.match(email_regex, na=True): a missing email counts as matching.
EmailRegexMatch(e) ==
    \E at \in 1..Len(e), dot \in 1..Len(e) :
        /\ e[at] = "@"
        /\ e[dot] = "."
        /\ at >= 2
        /\ \A k \in 1..(at - 1) : e[k] \in LocalChars
        /\ dot >= at + 2
        /\ \A k \in (at + 1)..(dot - 1) : e[k] \in DomainChars
        /\ Len(e) >= dot + 2
        /\ \A k \in (dot + 1)..Len(e) : e[k] \in Letters

\* A validation that lets every email through.
ValidEmailAny(e) == TRUE

ValidEmail(e) == IF e = NoEmail THEN TRUE ELSE EmailRegexMatch(e)

\* pd.to_datetime(value, errors='coerce'): a day stays, anything else is NaT.
ToDatetime(d) == IF d >= 1 THEN d ELSE NaT

\* The order of person_id strings.
PidRank(p) == IF p = "P1" THEN 1 ELSE 2

\* sort_values(['person_id', 'start_date']) compares rows this way.
SortsBefore(a, b) ==
    \/ PidRank(a.person_id) < PidRank(b.person_id)
    \/ /\ a.person_id = b.person_id
       /\ a.start_date < b.start_date

\* sort_values(['person_id', 'start_date']): a stable sort.
SortValues(s) ==
    LET Insert(t, r) ==
            LET after == {i \in 1..Len(t) : SortsBefore(r, t[i])}
                at == IF after = {} THEN Len(t) + 1
                      ELSE CHOOSE i \in after : \A j \in after : i <= j
            IN  SubSeq(t, 1, at - 1) \o <<r>> \o SubSeq(t, at, Len(t))
        F[i \in 0..Len(s)] == IF i = 0 THEN << >> ELSE Insert(F[i - 1], s[i])
    IN  F[Len(s)]

\* groupby('person_id')['title'].transform(lambda x: x.ffill().bfill()) at row i
\* of the sorted relation s.
FilledTitle(s, i) ==
    LET same == {j \in 1..Len(s) : s[j].person_id = s[i].person_id
                                   /\ s[j].title # NoText}
        prior == {j \in same : j <= i}
        later == {j \in same : j >= i}
    IN  IF prior # {} THEN s[CHOOSE j \in prior : \A k \in prior : k <= j].title
        ELSE IF later # {} THEN s[CHOOSE j \in later : \A k \in later : j <= k].title
        ELSE NoText

\* One entry of the error ledger: row_id, field, error_reason (the message and
\* the value the f-string puts after it).
ValidationError(rid, fld, msg, val) ==
    [row_id |-> rid, field |-> fld, error_reason |-> <<msg, val>>]

MapSeq(s, Op(_)) == [i \in 1..Len(s) |-> Op(s[i])]

\* 1. Deduplication: drop_duplicates(subset=['person_id','email','start_date']).
Deduplicate(df) ==
    KeepFirst(df, LAMBDA r : <<r.person_id, r.email, r.start_date>>)

\* 2. Email validation: the rows reported, and the rows kept.
EmailErrors(df) ==
    MapSeq(SelectSeq(df, LAMBDA r : ~ValidEmail(r.email)),
           LAMBDA r : ValidationError(r.row_id, "email", "Invalid email format", r.email))

FilterEmails(df) == SelectSeq(df, LAMBDA r : ValidEmail(r.email))

\* 3. Date coercion of start_date: the rows reported; then the column is coerced
\* and the rows left without a start_date are dropped.
StartDateErrors(df) ==
    MapSeq(SelectSeq(df, LAMBDA r : ToDatetime(r.start_date) = NaT),
           LAMBDA r : ValidationError(r.row_id, "start_date", "Invalid date format", r.start_date))

CoerceStartDate(df) ==
    SelectSeq(MapSeq(df, LAMBDA r : [r EXCEPT !.start_date = ToDatetime(r.start_date)]),
              LAMBDA r : r.start_date # NaT)

\* 3. Date coercion of end_date: the rows reported; the column is coerced and no
\* row is dropped.
EndDateErrors(df) ==
    MapSeq(SelectSeq(df, LAMBDA r : ToDatetime(r.end_date) = NaT),
           LAMBDA r : ValidationError(r.row_id, "end_date", "Invalid date format", r.end_date))

CoerceEndDate(df) ==
    MapSeq(df, LAMBDA r : [r EXCEPT !.end_date = ToDatetime(r.end_date)])

\* 4. Title carry-forward over the sorted relation; what stays missing is
\* reported and filled with 'Unknown'.
CarryTitles(df) ==
    [i \in 1..Len(df) |-> [df[i] EXCEPT !.title = FilledTitle(df, i)]]

TitleErrors(df) ==
    MapSeq(SelectSeq(df, LAMBDA r : r.title = NoText),
           LAMBDA r : ValidationError(r.row_id, "title",
                          "Missing title - no value to forward/backward fill", << >>))

FillUnknown(df) ==
    MapSeq(df, LAMBDA r : IF r.title = NoText THEN [r EXCEPT !.title = "Unknown"] ELSE r)

\* clean_data(df): the cleaned relation and the error ledger of this batch.
CleanData(df) ==
    IF df = << >> THEN [clean |-> << >>, errors |-> << >>]
    ELSE LET deduped == Deduplicate(df)
             emailed == FilterEmails(deduped)
             started == CoerceStartDate(emailed)
             ended == CoerceEndDate(started)
             carried == CarryTitles(SortValues(ended))
         IN  [clean |-> FillUnknown(carried),
              errors |-> EmailErrors(deduped) \o StartDateErrors(emailed)
                         \o EndDateErrors(started) \o TitleErrors(carried)]

\* ------------------------------------------------------------ enrich_data

\* company_lookup.json: email domain -> EIN.
CompanyLookup == [d \in {<<"x", ".", "i", "o">>} |-> "E1"]

\* api_mock.json: the people the enrichment source knows.
ApiMock == [p \in {"P1"} |-> [personal_email |-> "p1@home", phone_number |-> "555-01"]]

\* The all-null enrichment result.
NullResult == [personal_email |-> NoText, phone_number |-> NoText]

\* get_enrichment_data's retries=3.
Retries == 3

\* email.split('@')[1]: the text between the first '@' and the next one.
EmailDomain(e) ==
    LET ats == {i \in 1..Len(e) : e[i] = "@"}
        first == CHOOSE i \in ats : \A j \in ats : i <= j
        rest == {i \in ats : i > first}
        stop == IF rest = {} THEN Len(e) + 1
                ELSE CHOOSE i \in rest : \A j \in rest : i <= j
    IN  SubSeq(e, first + 1, stop - 1)

\* get_ein(row): the EIN the row carries, or the one its email domain maps to.
GetEin(r) ==
    IF r.company_ein # NoText THEN r.company_ein
    ELSE IF r.email = NoEmail \/ "@" \notin Range(r.email) THEN NoText
    ELSE IF EmailDomain(r.email) \in DOMAIN CompanyLookup
         THEN CompanyLookup[EmailDomain(r.email)]
         ELSE NoText

\* A lookup that treats "not found" as one more failure to retry.
GetEnrichmentDataRetryingNotFound(person_id, cache, failing) ==
    IF person_id \in DOMAIN cache
    THEN [result |-> cache[person_id], cache |-> cache, attempts |-> 0,
          answered |-> 0, raised |-> 0, outcome |-> "cached"]
    ELSE IF failing >= Retries
    THEN [result |-> NullResult, cache |-> cache, attempts |-> Retries,
          answered |-> 0, raised |-> Retries, outcome |-> "exhausted"]
    ELSE IF person_id \in DOMAIN ApiMock
    THEN [result |-> ApiMock[person_id],
          cache |-> [p \in DOMAIN cache \cup {person_id} |->
                        IF p = person_id THEN ApiMock[person_id] ELSE cache[p]],
          attempts |-> failing + 1, answered |-> 1, raised |-> failing,
          outcome |-> "found"]
    ELSE [result |-> NullResult, cache |-> cache, attempts |-> Retries,
          answered |-> Retries - failing, raised |-> failing, outcome |-> "not_found"]

\* get_enrichment_data(person_id) against the cache, when the first `failing`
\* attempts raise (a server error) and the next one, if any is left, is answered:
\* the result, the cache afterwards, the attempts made, and how many of them the
\* source answered (found or not found) and how many raised.
GetEnrichmentData(person_id, cache, failing) ==
    IF person_id \in DOMAIN cache
    THEN [result |-> cache[person_id], cache |-> cache, attempts |-> 0,
          answered |-> 0, raised |-> 0, outcome |-> "cached"]
    ELSE IF failing >= Retries
    THEN [result |-> NullResult, cache |-> cache, attempts |-> Retries,
          answered |-> 0, raised |-> Retries, outcome |-> "exhausted"]
    ELSE IF person_id \in DOMAIN ApiMock
    THEN [result |-> ApiMock[person_id],
          cache |-> [p \in DOMAIN cache \cup {person_id} |->
                        IF p = person_id THEN ApiMock[person_id] ELSE cache[p]],
          attempts |-> failing + 1, answered |-> 1, raised |-> failing,
          outcome |-> "found"]
    ELSE [result |-> NullResult, cache |-> cache, attempts |-> failing + 1,
          answered |-> 1, raised |-> failing, outcome |-> "not_found"]

\* pd.concat([enriched_df, enrichment_df], axis=1) reindexed to FINAL_COLUMNS:
\* the row with its enrichment result beside it, end_date projected away.
FinalRow(r, res) ==
    [person_id |-> r.person_id, title |-> r.title, email |-> r.email,
     company_ein |-> r.company_ein, start_date |-> r.start_date,
     row_id |-> r.row_id, personal_email |-> res.personal_email,
     phone_number |-> res.phone_number]

\* ----------------------------------------------------------- save_outputs

StoreKey(r) == <<r.person_id, r.start_date>>

\* pd.concat([existing_df, clean_df]) then
\* drop_duplicates(subset=['person_id','start_date'], keep='last').
MergeStore(existing, new) == KeepLast(existing \o new, StoreKey)

\* The validation-error table after save_outputs' first step.
AppendErrors(file, errs) ==
    IF errs # << >>
    THEN [exists |-> TRUE,
          header |-> IF file.exists THEN file.header ELSE TRUE,
          rows |-> file.rows \o errs]
    ELSE IF ~file.exists
    THEN [exists |-> TRUE, header |-> TRUE, rows |-> << >>]
    ELSE file

\* The rows of the store save_outputs leaves behind.
SavedStore(st, new) ==
    IF st.exists /\ new # << >> THEN [exists |-> TRUE, rows |-> MergeStore(st.rows, new)]
    ELSE IF new # << >> THEN [exists |-> TRUE, rows |-> new]
    ELSE IF st.exists THEN st
    ELSE [exists |-> TRUE, rows |-> << >>]

\* save_outputs reads the persisted store in these two branches.
ReadsStore(st, new) == st.exists

\* ------------------------------------------------------------ ingest_data

\* pd.read_csv(..., parse_dates=[col]): the column becomes datetimes only when
\* every cell parses (an empty cell is NaT); otherwise it stays text.
ColumnParses(cells) == BadDate \notin cells

\* column > pd.to_datetime(last_run_timestamp): NaT is greater than nothing.
NewerThan(d, ts) == d # NaT /\ d > ts

\* The employee table as read: each row under its index, the row_id.
ReadEmployees(raw) ==
    [i \in 1..Len(raw) |->
        [row_id |-> i - 1, person_id |-> raw[i].person_id, email |-> raw[i].email,
         start_date |-> raw[i].start_date, end_date |-> raw[i].end_date,
         title |-> raw[i].title, company_ein |-> raw[i].company_ein]]

\* employees_df[employees_df['start_date'] > watermark]
FilterEmployees(df, ts) == SelectSeq(df, LAMBDA r : NewerThan(r.start_date, ts))

\* claims_df[claims_df['service_date'] > watermark]
FilterClaims(df, ts) == SelectSeq(df, LAMBDA r : NewerThan(r.service_date, ts))

\* plans_df as ingest_data returns it: read, and returned as read.
FilterPlans(df, ts) == df

\* The comparison of a text column with a timestamp raises.
IngestRaises(employees, claims) ==
    \/ ~ColumnParses({employees[i].start_date : i \in 1..Len(employees)})
    \/ ~ColumnParses({claims[i].service_date : i \in 1..Len(claims)})

\* ------------------------------------------------------------ sample data

EmployeeRow(p, e, sd, ed, t, ein) ==
    [person_id |-> p, email |-> e, start_date |-> sd, end_date |-> ed,
     title |-> t, company_ein |-> ein]

\* Rows the raw employee table is made of: two rows sharing (person_id,
\* start_date) under different emails, rows of a person the enrichment source
\* does not know, dated after the first runs, an invalid email, a start_date
\* that does not parse.
SampleEmployees ==
    { EmployeeRow("P1", EmA, 1, 3, "Engineer", NoText),
      EmployeeRow("P1", EmB, 1, NaT, NoText, NoText),
      EmployeeRow("P2", EmA, 4, BadDate, NoText, "E9"),
      EmployeeRow("P2", EmB, 4, 5, "Manager", NoText),
      EmployeeRow("P2", EmNoAt, 1, 3, "Manager", NoText),
      EmployeeRow("P1", EmA, BadDate, 3, "Engineer", NoText) }

SeqsUpTo(S, n) == UNION {[1..k -> S] : k \in 0..n}

SamplePlans == { << >>, <<[plan_type |-> "Medical", start_date |-> 1, end_date |-> 3]>> }

SampleClaims == { << >>, <<[service_date |-> 1, amount |-> 100],
                          [service_date |-> 4, amount |-> 250]>> }

\* ------------------------------------------------------------------ state

VARIABLES
    employees_raw,      \* employees_raw.csv
    plans_raw,          \* plans_raw.csv
    claims_raw,         \* claims_raw.csv
    watermark,          \* watermark.txt: [exists, value]
    store,              \* clean_data.parquet: [exists, rows]
    verrors,            \* validation_errors.csv: [exists, header, rows]
    now,                \* datetime.now()
    pc,                 \* where run_etl stands
    last_run_timestamp, \* run_etl's local
    employees_df,       \* ingest_data's results
    plans_df,
    claims_df,
    clean_df,           \* clean_data's results
    errors_df,
    enriched_df,        \* enrich_data's result
    api_cache,          \* enrich_data's cache
    enrichment_results, \* what get_enrichment_data returned, row by row
    queries,            \* per person_id, the lookups the source answered in this run
    last_call,          \* the latest get_enrichment_data call
    summary,            \* log_summary was called in this run
    pre,                \* the persisted state when this run started
    sql_gaps,           \* sql_gaps.csv: the rows of the plan gap report
    sql_spikes          \* sql_spikes.csv: the rows of the cost spike report

vars == <<employees_raw, plans_raw, claims_raw, watermark, store, verrors, now, pc,
          last_run_timestamp, employees_df, plans_df, claims_df, clean_df,
          errors_df, enriched_df, api_cache, enrichment_results, queries,
          last_call, summary, pre, sql_gaps, sql_spikes>>

inputs == <<employees_raw, plans_raw, claims_raw>>
outputs == <<watermark, store, verrors>>
analytics == <<sql_gaps, sql_spikes>>
ingested == <<last_run_timestamp, employees_df, plans_df, claims_df>>
cleaned == <<clean_df, errors_df>>
enriching == <<api_cache, enrichment_results, queries, last_call>>

NoFile == [exists |-> FALSE, value |-> MinTimestamp]
NoStore == [exists |-> FALSE, rows |-> << >>]
NoErrors == [exists |-> FALSE, header |-> FALSE, rows |-> << >>]
EmptyCache == [p \in {} |-> NullResult]
PersonIds == {"P1", "P2"}
NoQueries == [p \in PersonIds |-> 0]
NoCall == [person_id |-> NoText, result |-> NullResult, attempts |-> 0,
           answered |-> 0, raised |-> 0, outcome |-> "none"]

\* Between runs.
Resting == {"idle", "refreshed", "done", "skipped", "aborted"}

\* run_etl has returned or raised: its locals are gone.
Return ==
    /\ last_run_timestamp' = MinTimestamp
    /\ employees_df' = << >>
    /\ plans_df' = << >>
    /\ claims_df' = << >>
    /\ clean_df' = << >>
    /\ errors_df' = << >>
    /\ enriched_df' = << >>
    /\ api_cache' = EmptyCache
    /\ enrichment_results' = << >>
    /\ queries' = NoQueries
    /\ last_call' = NoCall

Snapshot == [watermark |-> watermark, store |-> store, verrors |-> verrors, from |-> pc]

Init ==
    /\ employees_raw \in SeqsUpTo(SampleEmployees, MaxRows)
    /\ plans_raw \in SamplePlans
    /\ claims_raw \in SampleClaims
    /\ watermark = NoFile
    /\ store = NoStore
    /\ verrors = NoErrors
    /\ now = 2
    /\ pc = "idle"
    /\ last_run_timestamp = MinTimestamp
    /\ employees_df = << >>
    /\ plans_df = << >>
    /\ claims_df = << >>
    /\ clean_df = << >>
    /\ errors_df = << >>
    /\ enriched_df = << >>
    /\ api_cache = EmptyCache
    /\ enrichment_results = << >>
    /\ queries = NoQueries
    /\ last_call = NoCall
    /\ summary = FALSE
    /\ sql_gaps = {}
    /\ sql_spikes = {}
    /\ pre = [watermark |-> NoFile, store |-> NoStore, verrors |-> NoErrors, from |-> "idle"]

\* get_high_water_mark()
GetHighWaterMark == IF watermark.exists THEN watermark.value ELSE MinTimestamp

\* What a run starts from: the clock has moved on, the locals are fresh.
Begin ==
    /\ pc \in Resting
    /\ now < MaxClock
    /\ now' = now + 1
    /\ pre' = Snapshot
    /\ summary' = FALSE
    /\ UNCHANGED <<analytics, inputs, outputs>>

\* run_etl up to the return of ingest_data.
Ingest ==
    /\ Begin
    /\ ~IngestRaises(employees_raw, claims_raw)
    /\ last_run_timestamp' = GetHighWaterMark
    /\ employees_df' = FilterEmployees(ReadEmployees(employees_raw), GetHighWaterMark)
    /\ claims_df' = FilterClaims(claims_raw, GetHighWaterMark)
    /\ plans_df' = FilterPlans(plans_raw, GetHighWaterMark)
    /\ pc' = "ingested"
    /\ UNCHANGED <<cleaned, enriched_df, enriching>>

\* run_etl when ingest_data raises: an input that cannot be read, or a date
\* column that stayed text.
IngestFails ==
    /\ Begin
    /\ Return
    /\ pc' = "aborted"

NothingNew == employees_df = << >> /\ claims_df = << >> /\ plans_df = << >>

\* A short-circuit that leaves the validation-error table as it found it.
EnsureErrorsFileSkipped(file) == file

\* The validation-error table once run_etl has made sure it exists.
EnsureErrorsFile(file) ==
    IF ~file.exists THEN [exists |-> TRUE, header |-> TRUE, rows |-> << >>] ELSE file

\* run_etl's "no new data" return.
NoNewData ==
    /\ pc = "ingested"
    /\ NothingNew
    /\ verrors' = EnsureErrorsFile(verrors)
    /\ summary' = TRUE
    /\ Return
    /\ pc' = "skipped"
    /\ UNCHANGED <<analytics, inputs, watermark, store, now, pre>>

\* 3. Clean Data
Clean ==
    /\ pc = "ingested"
    /\ ~NothingNew
    /\ clean_df' = CleanData(employees_df).clean
    /\ errors_df' = CleanData(employees_df).errors
    /\ pc' = "cleaned"
    /\ UNCHANGED <<analytics, inputs, outputs, now, ingested, enriched_df, enriching, summary, pre>>

\* 4. Enrich Data, an empty relation: returned as it is.
EnrichEmpty ==
    /\ pc = "cleaned"
    /\ clean_df = << >>
    /\ enriched_df' = << >>
    /\ pc' = "enriched"
    /\ UNCHANGED <<analytics, inputs, outputs, now, ingested, cleaned, enriching, summary, pre>>

\* 4. Enrich Data up to the empty cache: the lookup files are read and the EINs
\* inferred.
EnrichBegin ==
    /\ pc = "cleaned"
    /\ clean_df # << >>
    /\ enriched_df' = MapSeq(clean_df, LAMBDA r : [r EXCEPT !.company_ein = GetEin(r)])
    /\ api_cache' = EmptyCache
    /\ enrichment_results' = << >>
    /\ queries' = NoQueries
    /\ last_call' = NoCall
    /\ pc' = "enriching"
    /\ UNCHANGED <<analytics, inputs, outputs, now, ingested, cleaned, summary, pre>>

\* 4. Enrich Data when company_lookup.json or api_mock.json cannot be read.
EnrichFails ==
    /\ pc = "cleaned"
    /\ clean_df # << >>
    /\ Return
    /\ pc' = "aborted"
    /\ UNCHANGED <<analytics, inputs, outputs, now, summary, pre>>

\* One call of get_enrichment_data by enriched_df['person_id'].apply.
EnrichLookup ==
    /\ pc = "enriching"
    /\ Len(enrichment_results) < Len(enriched_df)
    /\ \E failing \in 0..Retries :
          LET person_id == enriched_df[Len(enrichment_results) + 1].person_id
              call == GetEnrichmentData(person_id, api_cache, failing)
          IN  /\ api_cache' = call.cache
              /\ enrichment_results' = Append(enrichment_results, call.result)
              /\ queries' = [queries EXCEPT ![person_id] = @ + call.answered]
              /\ last_call' = [person_id |-> person_id, result |-> call.result,
                               attempts |-> call.attempts, answered |-> call.answered,
                               raised |-> call.raised, outcome |-> call.outcome]
    /\ UNCHANGED <<analytics, inputs, outputs, now, pc, ingested, cleaned, enriched_df, summary, pre>>

\* The rest of enrich_data: the results joined on and the columns projected.
EnrichEnd ==
    /\ pc = "enriching"
    /\ Len(enrichment_results) = Len(enriched_df)
    /\ enriched_df' = [i \in 1..Len(enriched_df) |->
                          FinalRow(enriched_df[i], enrichment_results[i])]
    /\ api_cache' = EmptyCache
    /\ enrichment_results' = << >>
    /\ queries' = NoQueries
    /\ last_call' = NoCall
    /\ pc' = "enriched"
    /\ UNCHANGED <<analytics, inputs, outputs, now, ingested, cleaned, summary, pre>>

\* 5. Save Outputs
SaveOutputs ==
    /\ pc = "enriched"
    /\ verrors' = AppendErrors(verrors, errors_df)
    /\ store' = SavedStore(store, enriched_df)
    /\ pc' = "saved"
    /\ UNCHANGED <<analytics, inputs, watermark, now, ingested, cleaned, enriched_df, enriching,
                   summary, pre>>

\* 5. Save Outputs when pd.read_parquet raises on the persisted store.
SaveOutputsFails ==
    /\ pc = "enriched"
    /\ ReadsStore(store, enriched_df)
    /\ verrors' = AppendErrors(verrors, errors_df)
    /\ Return
    /\ pc' = "aborted"
    /\ UNCHANGED <<analytics, inputs, watermark, store, now, summary, pre>>

\* update_high_water_mark()
UpdateHighWaterMark == [exists |-> TRUE, value |-> now]

\* 6. Update High-Water Mark and 7. Log Summary Metrics
Commit ==
    /\ pc = "saved"
    /\ watermark' = UpdateHighWaterMark
    /\ summary' = TRUE
    /\ Return
    /\ pc' = "done"
    /\ UNCHANGED <<analytics, inputs, store, verrors, now, pre>>

\* --full-refresh: the watermark file is removed before run_etl.
FullRefresh ==
    /\ pc \in Resting \ {"refreshed"}
    /\ watermark.exists
    /\ watermark' = NoFile
    /\ pc' = "refreshed"
    /\ UNCHANGED <<analytics, inputs, store, verrors, now, ingested, cleaned, enriched_df,
                   enriching, summary, pre>>

Next ==
    \/ Ingest
    \/ IngestFails
    \/ NoNewData
    \/ Clean
    \/ EnrichEmpty
    \/ EnrichBegin
    \/ EnrichFails
    \/ EnrichLookup
    \/ EnrichEnd
    \/ SaveOutputs
    \/ SaveOutputsFails
    \/ Commit
    \/ FullRefresh

Spec == Init /\ [][Next]_vars

\* ------------------------------------------- clean_data checked on its own

\* Rows clean_data is called with directly: every kind of email, start_date and
\* end_date cell, with and without a title.
CleanSamples ==
    { EmployeeRow("P1", EmA, 1, 3, "Engineer", NoText),
      EmployeeRow("P1", EmA, 2, NaT, NoText, NoText),
      EmployeeRow("P1", EmB, 1, BadDate, NoText, NoText),
      EmployeeRow("P1", NoEmail, 2, 3, "Manager", NoText),
      EmployeeRow("P1", EmNoAt, 1, 3, "Manager", NoText),
      EmployeeRow("P2", EmShortTld, 1, 3, NoText, NoText),
      EmployeeRow("P2", EmA, BadDate, 3, "Engineer", NoText),
      EmployeeRow("P2", EmA, NaT, NaT, NoText, NoText),
      EmployeeRow("P2", EmB, 2, 3, NoText, NoText) }

InitClean ==
    /\ employees_raw \in SeqsUpTo(CleanSamples, MaxCleanRows) \ {<< >>}
    /\ plans_raw = << >>
    /\ claims_raw = << >>
    /\ watermark = NoFile
    /\ store = NoStore
    /\ verrors = NoErrors
    /\ now = 2
    /\ pc = "ingested"
    /\ last_run_timestamp = MinTimestamp
    /\ employees_df = ReadEmployees(employees_raw)
    /\ plans_df = << >>
    /\ claims_df = << >>
    /\ clean_df = << >>
    /\ errors_df = << >>
    /\ enriched_df = << >>
    /\ api_cache = EmptyCache
    /\ enrichment_results = << >>
    /\ queries = NoQueries
    /\ last_call = NoCall
    /\ summary = FALSE
    /\ sql_gaps = {}
    /\ sql_spikes = {}
    /\ pre = [watermark |-> NoFile, store |-> NoStore, verrors |-> NoErrors, from |-> "idle"]

SpecClean == InitClean /\ [][Clean]_vars

\* ------------------------------------------------------------------ claims

Finished == {"done", "skipped"}

\* C1: a run that follows a successful run, the raw tables unchanged, leaves
\* the store and the watermark as it found them.
C1_Idempotent ==
    (pc \in Finished /\ pre.from \in Finished)
        => (store = pre.store /\ watermark = pre.watermark)

UniqueKeys(rows) ==
    \A i, j \in 1..Len(rows) : i # j => StoreKey(rows[i]) # StoreKey(rows[j])

\* C2: the persisted store never holds two rows with the same
\* (person_id, start_date).
C2_StoreKeysUnique == UniqueKeys(store.rows)

Keys(rows) == {StoreKey(rows[i]) : i \in 1..Len(rows)}

\* C3: after save_outputs merged a non-empty relation into an existing store,
\* every key of the new relation is in the store with the new relation's values,
\* and every old row whose key is not in the new relation is still there.
C3_UpsertReplaces ==
    (pc = "saved" /\ pre.store.exists /\ enriched_df # << >>)
        => /\ \A k \in Keys(enriched_df) : k \in Keys(store.rows)
           /\ \A r \in Range(store.rows) :
                  StoreKey(r) \in Keys(enriched_df) => r \in Range(enriched_df)
           /\ \A r \in Range(pre.store.rows) :
                  StoreKey(r) \notin Keys(enriched_df) => r \in Range(store.rows)

\* C4: a run that aborted left the watermark, the store and the
\* validation-error table as they were when it started.
C4_AbortMutatesNothing ==
    pc = "aborted"
        => (watermark = pre.watermark /\ store = pre.store /\ verrors = pre.verrors)

\* C5: within one run the enrichment source answers at most one lookup per
\* person_id, whether it knows the person or not.
C5_OneQueryPerPerson == \A p \in PersonIds : queries[p] <= 1

\* The row of clean_data's input that a ledger entry names.
InputRow(rid) == CHOOSE r \in Range(employees_df) : r.row_id = rid

\* The input rows that are still in the cleaned relation.
Surviving == {r \in Range(employees_df) : \E c \in Range(clean_df) : c.row_id = r.row_id}

\* The field a ledger entry names fails its rule on the input row.
FailsItsRule(e) ==
    LET row == InputRow(e.row_id)
    IN  CASE e.field = "email" -> row.email # NoEmail /\ ~EmailRegexMatch(row.email)
          [] e.field = "start_date" -> row.start_date \in {NaT, BadDate}
          [] e.field = "end_date" -> row.end_date = BadDate
          [] e.field = "title" ->
                /\ row.title = NoText
                /\ \A r \in Surviving : r.person_id = row.person_id => r.title = NoText
          [] OTHER -> FALSE

\* C6: every entry of clean_data's ledger names a field that fails its rule on
\* the input; a missing end_date is not an error.
C6_LedgerSound ==
    pc = "cleaned" => \A e \in Range(errors_df) : FailsItsRule(e)

\* C7 as stated: every cleaned row has an email matching the address pattern, a
\* valid start_date and a title.
C7_CleanRowsValid ==
    pc = "cleaned"
        => \A r \in Range(clean_df) :
               /\ EmailRegexMatch(r.email)
               /\ r.start_date >= 1
               /\ r.title # NoText

\* C7 amended: every cleaned row has an email that is missing or matches the
\* address pattern, a valid start_date and a title.
C7_CleanRowsValidOrNoEmail ==
    pc = "cleaned"
        => \A r \in Range(clean_df) :
               /\ (r.email = NoEmail \/ EmailRegexMatch(r.email))
               /\ r.start_date >= 1
               /\ r.title # NoText

\* clean_data dropped a row for its email, kept one without an email and filled
\* a title with the sentinel.
C7_Witness ==
    /\ pc = "cleaned"
    /\ \E e \in Range(errors_df) : e.field = "email"
    /\ \E r \in Range(clean_df) : r.email = NoEmail
    /\ \E r \in Range(clean_df) : r.title = "Unknown"

\* C8: every table ingest_data returns holds only rows dated strictly after the
\* watermark.
C8_OnlyNewRows ==
    pc = "ingested"
        => /\ \A r \in Range(employees_df) :
                  r.start_date >= 1 /\ r.start_date > last_run_timestamp
           /\ \A r \in Range(claims_df) :
                  r.service_date >= 1 /\ r.service_date > last_run_timestamp
           /\ \A r \in Range(plans_df) :
                  r.start_date >= 1 /\ r.start_date > last_run_timestamp

\* C9: when every ingested table is empty the run ends at once, with the
\* validation-error table present under its header (created empty, or left as it
\* was), the watermark and the store untouched and the summary logged.
C9_NoOpShortCircuit ==
    [][(pc = "ingested" /\ NothingNew)
          => /\ pc' = "skipped"
             /\ verrors'.exists /\ verrors'.header
             /\ (verrors.exists => verrors' = verrors)
             /\ (~verrors.exists => verrors'.rows = << >>)
             /\ watermark' = watermark /\ watermark' = pre.watermark
             /\ store' = store /\ store' = pre.store
             /\ summary']_vars

\* A run short-circuited and had to create the validation-error table.
C9_Witness ==
    pc = "skipped" /\ ~pre.verrors.exists /\ verrors.exists /\ summary

\* What a finished get_enrichment_data call looks like.
CallReturned(c) ==
    /\ c.attempts <= Retries
    /\ c.attempts = c.raised + c.answered
    /\ c.answered <= 1
    /\ c.person_id \notin DOMAIN ApiMock => c.result = NullResult
    /\ (c.answered = 0 /\ c.attempts = Retries) => c.result = NullResult
    /\ (c.person_id \notin DOMAIN ApiMock /\ c.raised = 0) => c.attempts = 1

\* C10: every get_enrichment_data call returns and the run goes on; an answer,
\* found or not found, ends the call (no retry), at most 3 attempts are made,
\* and a call whose attempts all failed returns the all-null result.
C10_LookupOutcome ==
    [][(pc = "enriching" /\ Len(enrichment_results) < Len(enriched_df))
          => /\ pc' = "enriching"
             /\ Len(enrichment_results') = Len(enrichment_results) + 1
             /\ CallReturned(last_call')]_vars

\* A lookup used up its three attempts and returned the all-null result for a
\* person the source knows.
C10_Witness ==
    /\ pc = "enriching"
    /\ last_call.person_id \in DOMAIN ApiMock
    /\ last_call.raised = Retries
    /\ last_call.result = NullResult

\* ------------------------------------------- run_sql_analysis: plan gaps

\* Longest plan table the gap report is computed on.
MaxPlans == 4

\* company_name_mapping: company_ein -> company_name.
CompanyNameMapping ==
    [e \in {"11-1111111", "22-2222222", "33-3333333"} |->
        IF e = "11-1111111" THEN "Hillwinds Health"
        ELSE IF e = "22-2222222" THEN "Summit Solutions"
        ELSE "Peak Performers"]

\* The order of carrier names, for MIN(carrier).
CarrierRank(c) == IF c = "Aetna" THEN 1 ELSE 2

\* DATEDIFF('day', a, b)
DateDiff(a, b) == b - a

\* plans_clean: the plans of mapped companies that have a start_date.
PlansClean(raw) ==
    LET kept == SelectSeq(raw, LAMBDA p : p.company_ein \in DOMAIN CompanyNameMapping
                                          /\ p.start_date # NaT)
    IN  [i \in 1..Len(kept) |->
            [company_name |-> CompanyNameMapping[kept[i].company_ein],
             plan_type |-> kept[i].plan_type, carrier |-> kept[i].carrier_name,
             start_date |-> kept[i].start_date, end_date |-> kept[i].end_date]]

\* PARTITION BY company_name, plan_type: the rows in the partition of row i.
PlanPartition(t, i) ==
    {j \in 1..Len(t) : t[j].company_name = t[i].company_name
                        /\ t[j].plan_type = t[i].plan_type}

\* The rows before row i under ORDER BY start_date (rows with the same
\* start_date in the order the table gives them).
RowsBefore(t, i) ==
    {j \in PlanPartition(t, i) :
        \/ t[j].start_date < t[i].start_date
        \/ t[j].start_date = t[i].start_date /\ j < i}

\* new_group: 0 when start_date <= COALESCE(LAG(end_date) + 1 day, start_date).
NewGroup(t, i) ==
    LET before == RowsBefore(t, i)
        lag == CHOOSE j \in before : \A k \in before \ {j} : k \in RowsBefore(t, j)
    IN  IF before = {} THEN 0
        ELSE IF t[i].start_date <= t[lag].end_date + 1 THEN 0 ELSE 1

\* grp: SUM(new_group) OVER (... ORDER BY start_date, end_date), the running sum
\* up to the row and its peers.
Grp(t, i) ==
    Cardinality({j \in PlanPartition(t, i) :
        /\ NewGroup(t, j) = 1
        /\ \/ t[j].start_date < t[i].start_date
           \/ t[j].start_date = t[i].start_date /\ t[j].end_date <= t[i].end_date})

SetMin(S) == CHOOSE x \in S : \A y \in S : x <= y
SetMax(S) == CHOOSE x \in S : \A y \in S : y <= x

\* islands: GROUP BY company_name, plan_type, grp.
Islands(t) ==
    { LET rows == {j \in PlanPartition(t, i) : Grp(t, j) = Grp(t, i)}
      IN  [company_name |-> t[i].company_name, plan_type |-> t[i].plan_type,
           grp |-> Grp(t, i),
           island_start |-> SetMin({t[j].start_date : j \in rows}),
           island_end |-> SetMax({t[j].end_date : j \in rows}),
           carrier_during_island |->
               t[CHOOSE j \in rows : \A k \in rows :
                      CarrierRank(t[j].carrier) <= CarrierRank(t[k].carrier)].carrier]
      : i \in 1..Len(t) }

SameGroup(a, b) == a.company_name = b.company_name /\ a.plan_type = b.plan_type

\* ORDER BY island_start within the partition.
IslandBefore(a, b) ==
    \/ a.island_start < b.island_start
    \/ a.island_start = b.island_start /\ a.grp < b.grp

\* with_next: the islands that LEAD(...) OVER (... ORDER BY island_start) pairs.
WithNext(islands) ==
    {<<a, b>> \in islands \X islands :
        /\ SameGroup(a, b)
        /\ IslandBefore(a, b)
        /\ ~\E c \in islands : SameGroup(a, c) /\ IslandBefore(a, c) /\ IslandBefore(c, b)}

\* The final SELECT's WHERE clause.
GapReported(island_end, next_start) == DateDiff(island_end, next_start) > 7

\* The final SELECT's gap_length_days.
GapLengthDays(island_end, next_start) == DateDiff(island_end + 1, next_start - 1)

\* plan_gaps_query: one row per reported gap (plan_type names the partition the
\* row comes from; the SELECT does not output it).
PlanGapsQuery(raw) ==
    { [company_name |-> ab[1].company_name, plan_type |-> ab[1].plan_type,
       gap_start |-> ab[1].island_end + 1,
       gap_end |-> ab[2].island_start - 1,
       gap_length_days |-> GapLengthDays(ab[1].island_end, ab[2].island_start),
       previous_carrier |-> ab[1].carrier_during_island,
       next_carrier |-> ab[2].carrier_during_island]
      : ab \in {p \in WithNext(Islands(PlansClean(raw))) :
                   GapReported(p[1].island_end, p[2].island_start)} }

PlanRow(ein, type, carrier, sd, ed) ==
    [company_ein |-> ein, plan_type |-> type, carrier_name |-> carrier,
     start_date |-> sd, end_date |-> ed]

\* Rows the plan table is made of, days counted from 2023-01-01 = 1: the two
\* intervals [2023-01-01, 2023-01-31] and [2023-02-20, 2023-03-01], intervals 5
\* and 7 uncovered days after the first, a long interval with short ones inside
\* it, another plan type, a company the mapping does not know.
SamplePlanRows ==
    { PlanRow("11-1111111", "Medical", "Aetna", 1, 31),
      PlanRow("11-1111111", "Medical", "Cigna", 51, 60),
      PlanRow("11-1111111", "Medical", "Cigna", 37, 40),
      PlanRow("11-1111111", "Medical", "Cigna", 39, 45),
      PlanRow("11-1111111", "Medical", "Aetna", 1, 40),
      PlanRow("11-1111111", "Medical", "Cigna", 2, 3),
      PlanRow("11-1111111", "Medical", "Cigna", 14, 15),
      PlanRow("11-1111111", "Medical", "Aetna", 30, 31),
      PlanRow("11-1111111", "Dental", "Aetna", 51, 60),
      PlanRow("22-2222222", "Medical", "Cigna", NaT, 60),
      PlanRow("99-9999999", "Medical", "Aetna", 1, 31) }

InitGaps ==
    /\ employees_raw = << >>
    /\ plans_raw \in SeqsUpTo(SamplePlanRows, MaxPlans)
    /\ claims_raw = << >>
    /\ watermark = NoFile
    /\ store = NoStore
    /\ verrors = NoErrors
    /\ now = 2
    /\ pc = "connected"
    /\ last_run_timestamp = MinTimestamp
    /\ employees_df = << >>
    /\ plans_df = << >>
    /\ claims_df = << >>
    /\ clean_df = << >>
    /\ errors_df = << >>
    /\ enriched_df = << >>
    /\ api_cache = EmptyCache
    /\ enrichment_results = << >>
    /\ queries = NoQueries
    /\ last_call = NoCall
    /\ summary = FALSE
    /\ sql_gaps = {}
    /\ sql_spikes = {}
    /\ pre = [watermark |-> NoFile, store |-> NoStore, verrors |-> NoErrors, from |-> "idle"]

\* Task 1: Plan Gap Detection.
PlanGapDetection ==
    /\ pc = "connected"
    /\ sql_gaps' = PlanGapsQuery(plans_raw)
    /\ pc' = "gaps_written"
    /\ UNCHANGED <<inputs, outputs, now, ingested, cleaned, enriched_df, enriching,
                   summary, pre, sql_spikes>>

SpecGaps == InitGaps /\ [][PlanGapDetection]_vars

\* The islands the gap query consolidates the plan table into.
CoverageIslands == Islands(PlansClean(plans_raw))

\* The rows the report holds for the pair of consecutive islands ab.
GapRowsOf(ab) ==
    {g \in sql_gaps : /\ g.company_name = ab[1].company_name
                      /\ g.plan_type = ab[1].plan_type
                      /\ g.gap_start = ab[1].island_end + 1
                      /\ g.gap_end = ab[2].island_start - 1}

\* C11: between two consecutive islands of one (organization, plan type), the
\* first ending on day E and the next starting on day S, a gap is reported if
\* and only if the S-E-1 uncovered days are more than 7, and the reported
\* gap_length_days is that number of uncovered days.
C11_GapReporting ==
    pc = "gaps_written" =>
        \A ab \in WithNext(CoverageIslands) :
            LET uncovered == ab[2].island_start - ab[1].island_end - 1
            IN  /\ (GapRowsOf(ab) # {}) <=> (uncovered > 7)
                /\ \A g \in GapRowsOf(ab) : g.gap_length_days = uncovered

\* The days of the intervals of one (organization, plan type).
CoveredDays(company_name, plan_type) ==
    UNION { p.start_date .. p.end_date :
            p \in {q \in Range(PlansClean(plans_raw)) :
                      q.company_name = company_name /\ q.plan_type = plan_type} }

\* C13: the consolidated islands are maximal: no two islands of one
\* (organization, plan type) overlap or are adjacent, and no reported gap
\* contains a day that some interval of that group covers.
C13_IslandsMaximal ==
    pc = "gaps_written" =>
        /\ \A a, b \in CoverageIslands :
               (a # b /\ SameGroup(a, b) /\ a.island_start <= b.island_start)
                   => b.island_start > a.island_end + 1
        /\ \A g \in sql_gaps :
               (g.gap_start .. g.gap_end) \cap CoveredDays(g.company_name, g.plan_type) = {}

\* ------------------------------------------ run_sql_analysis: cost spikes

\* Longest claims table the spike report is computed on.
MaxClaims == 3

\* SQL NULL in a cost column (costs are not negative).
Null == -1

\* ROWS BETWEEN 89 PRECEDING AND CURRENT ROW, and service_date - INTERVAL '89' DAY.
Preceding == 89

\* claims_with_company: the claims of mapped companies.
ClaimsWithCompany(raw) ==
    LET kept == SelectSeq(raw, LAMBDA c : c.company_ein \in DOMAIN CompanyNameMapping)
    IN  [i \in 1..Len(kept) |->
            [company_name |-> CompanyNameMapping[kept[i].company_ein],
             service_date |-> kept[i].service_date, claim_cost |-> kept[i].amount]]

\* SUM(claim_cost) over a sequence of claims.
RECURSIVE SumClaimCost(_)
SumClaimCost(cs) ==
    IF cs = << >> THEN 0 ELSE Head(cs).claim_cost + SumClaimCost(Tail(cs))

\* daily_costs: GROUP BY company_name, service_date.
DailyCosts(cwc) ==
    { [company_name |-> cwc[i].company_name, service_date |-> cwc[i].service_date,
       total_daily_cost |->
           SumClaimCost(SelectSeq(cwc, LAMBDA c :
               c.company_name = cwc[i].company_name
               /\ c.service_date = cwc[i].service_date))]
      : i \in 1..Len(cwc) }

\* SUM(total_daily_cost) over a set of daily_costs rows.
RECURSIVE SumDailyCost(_)
SumDailyCost(rows) ==
    IF rows = {} THEN 0
    ELSE LET r == CHOOSE x \in rows : TRUE
         IN  r.total_daily_cost + SumDailyCost(rows \ {r})

\* The window frame of row d: the row itself and the 89 rows before it in its
\* company's rows ordered by service_date.
Frame(daily, d) ==
    {r \in daily :
        /\ r.company_name = d.company_name
        /\ r.service_date <= d.service_date
        /\ Cardinality({x \in daily : /\ x.company_name = d.company_name
                                      /\ r.service_date < x.service_date
                                      /\ x.service_date <= d.service_date}) <= Preceding}

\* rolling_90d
Rolling90d(daily) ==
    { [company_name |-> d.company_name, service_date |-> d.service_date,
       rolling_90d_cost |-> SumDailyCost(Frame(daily, d))] : d \in daily }

\* LAG(rolling_90d_cost, 1) OVER (PARTITION BY company_name ORDER BY service_date)
LagRolling(rolling, r) ==
    LET before == {x \in rolling : x.company_name = r.company_name
                                   /\ x.service_date < r.service_date}
    IN  IF before = {} THEN Null
        ELSE (CHOOSE x \in before :
                 \A y \in before : y.service_date <= x.service_date).rolling_90d_cost

\* rolling_windows
RollingWindows(rolling) ==
    { [company_name |-> r.company_name,
       window_end |-> r.service_date,
       window_start |-> r.service_date - Preceding,
       current_90d_cost |-> r.rolling_90d_cost,
       prev_90d_cost |-> LagRolling(rolling, r)] : r \in rolling }

\* A WHERE clause that also lets the increase of exactly 200% through.
SpikeReportedAtThreshold(prev, cur) ==
    prev # Null /\ prev > 0 /\ (cur - prev) >= 2 * prev

\* WHERE prev_90d_cost IS NOT NULL AND prev_90d_cost > 0
\*   AND (current_90d_cost - prev_90d_cost) / prev_90d_cost > 2.0
SpikeReported(prev, cur) ==
    prev # Null /\ prev > 0 /\ (cur - prev) > 2 * prev

\* n / d rounded to the nearest integer, halves away from zero (d > 0).
RoundDiv(n, d) ==
    IF n >= 0 THEN (2 * n + d) \div (2 * d) ELSE 0 - ((d - 2 * n) \div (2 * d))

\* pct_change: ROUND(... * 100, 2), held in hundredths of a percent.
PctChange(prev, cur) ==
    IF prev = Null \/ prev = 0 THEN Null ELSE RoundDiv((cur - prev) * 10000, prev)

\* claims_spike_query: one row per reported spike.
ClaimsSpikeQuery(raw) ==
    { [company_name |-> w.company_name,
       window_start |-> w.window_start, window_end |-> w.window_end,
       prev_90d_cost |-> w.prev_90d_cost, current_90d_cost |-> w.current_90d_cost,
       pct_change |-> PctChange(w.prev_90d_cost, w.current_90d_cost)]
      : w \in {x \in RollingWindows(Rolling90d(DailyCosts(ClaimsWithCompany(raw)))) :
                  SpikeReported(x.prev_90d_cost, x.current_90d_cost)} }

ClaimRow(ein, sd, amt) == [company_ein |-> ein, service_date |-> sd, amount |-> amt]

\* Rows the claims table is made of, days counted from 2023-01-01 = 1: costs
\* that take a rolling sum of 1000 to 2500, 3000 and 3500 on the next day, a
\* day without cost, small costs whose ratio does not come out even, a claim
\* 91 days after the first, a second company, a company the mapping does not
\* know.
SampleClaimRows ==
    { ClaimRow("11-1111111", 1, 1000),
      ClaimRow("11-1111111", 2, 1500),
      ClaimRow("11-1111111", 2, 2000),
      ClaimRow("11-1111111", 2, 2500),
      ClaimRow("11-1111111", 1, 0),
      ClaimRow("11-1111111", 2, 1000),
      ClaimRow("11-1111111", 1, 3),
      ClaimRow("11-1111111", 2, 7),
      ClaimRow("11-1111111", 92, 7),
      ClaimRow("11-1111111", 92, 2500),
      ClaimRow("22-2222222", 1, 1000),
      ClaimRow("22-2222222", 2, 2500),
      ClaimRow("99-9999999", 2, 2500) }

InitSpikes ==
    /\ employees_raw = << >>
    /\ plans_raw = << >>
    /\ claims_raw \in SeqsUpTo(SampleClaimRows, MaxClaims)
    /\ watermark = NoFile
    /\ store = NoStore
    /\ verrors = NoErrors
    /\ now = 2
    /\ pc = "gaps_written"
    /\ last_run_timestamp = MinTimestamp
    /\ employees_df = << >>
    /\ plans_df = << >>
    /\ claims_df = << >>
    /\ clean_df = << >>
    /\ errors_df = << >>
    /\ enriched_df = << >>
    /\ api_cache = EmptyCache
    /\ enrichment_results = << >>
    /\ queries = NoQueries
    /\ last_call = NoCall
    /\ summary = FALSE
    /\ sql_gaps = PlanGapsQuery(plans_raw)
    /\ sql_spikes = {}
    /\ pre = [watermark |-> NoFile, store |-> NoStore, verrors |-> NoErrors, from |-> "idle"]

\* Task 2: Claims Cost Spike.
ClaimsCostSpike ==
    /\ pc = "gaps_written"
    /\ sql_spikes' = ClaimsSpikeQuery(claims_raw)
    /\ pc' = "spikes_written"
    /\ UNCHANGED <<inputs, outputs, now, ingested, cleaned, enriched_df, enriching,
                   summary, pre, sql_gaps>>

SpecSpikes == InitSpikes /\ [][ClaimsCostSpike]_vars

\* The rows of rolling_windows the spike report is selected from.
Windows == RollingWindows(Rolling90d(DailyCosts(ClaimsWithCompany(claims_raw))))

\* The report's rows for the window w.
SpikeRowsOf(w) ==
    {r \in sql_spikes : r.company_name = w.company_name /\ r.window_end = w.window_end}

\* C12: an (organization, date) row is reported if and only if the previous
\* row's rolling sum is strictly positive and the current sum is more than 3
\* times it; a row with a missing or zero previous sum is never reported; the
\* reported pct_change is the relative increase in percent, to 2 decimals
\* (1000 -> 3500 is reported with 250.00, 1000 -> 2500 is not reported).
C12_SpikeReporting ==
    pc = "spikes_written" =>
        /\ \A w \in Windows :
            LET prev == w.prev_90d_cost
                cur == w.current_90d_cost
            IN  /\ (SpikeRowsOf(w) # {}) <=> (prev # Null /\ prev > 0 /\ cur > 3 * prev)
                /\ (prev = Null \/ prev = 0) => SpikeRowsOf(w) = {}
                /\ (prev = 1000 /\ cur = 3500) => \E r \in SpikeRowsOf(w) : r.pct_change = 25000
                /\ (prev = 1000 /\ cur = 2500) => SpikeRowsOf(w) = {}
        /\ \A r \in sql_spikes :
            /\ \E w \in Windows : r \in SpikeRowsOf(w)
            /\ LET diff == r.pct_change * r.prev_90d_cost
                           - (r.current_90d_cost - r.prev_90d_cost) * 10000
               IN  2 * diff <= r.prev_90d_cost /\ 2 * diff >= 0 - r.prev_90d_cost

\* A report with the spike 1000 -> 3500 at 250.00 percent, computed from a
\* table that also has a window with a zero and one with a missing previous sum.
C12_Witness ==
    /\ pc = "spikes_written"
    /\ \E w \in Windows : w.prev_90d_cost = 0 /\ w.current_90d_cost > 0
    /\ \E w \in Windows : w.prev_90d_cost = Null
    /\ \E r \in sql_spikes :
           r.prev_90d_cost = 1000 /\ r.current_90d_cost = 3500 /\ r.pct_change = 25000

\* The claims of company_name with service date in from .. to.
ClaimsInDays(company_name, from, to) ==
    SelectSeq(ClaimsWithCompany(claims_raw), LAMBDA c :
        c.company_name = company_name /\ c.service_date >= from /\ c.service_date <= to)

\* C14: for every organization and service date d with claims, the rolling sum
\* for d is the total of the organization's claim amounts with service date in
\* the 90 calendar days d-89 .. d, the reported window_start .. window_end.
C14_TrailingWindow ==
    pc = "spikes_written" =>
        /\ \A w \in Windows :
               w.current_90d_cost =
                   SumClaimCost(ClaimsInDays(w.company_name, w.window_end - 89, w.window_end))
        /\ \A r \in sql_spikes :
               /\ r.window_start = r.window_end - 89
               /\ r.current_90d_cost =
                      SumClaimCost(ClaimsInDays(r.company_name, r.window_start, r.window_end))

====
